---- MODULE Spec2Model ----
(***************************************************************************)
(* Model of utils/nima/inference_model.py: the NIMA aesthetic scorer.      *)
(*                                                                         *)
(*   - download_file and the file system it writes to                      *)
(*   - mobile_net_v2 / NIMA / InferenceModel construction                  *)
(*   - InferenceModel.predict, predict_from_file, predict_from_pil_image   *)
(*   - get_mean_score / get_std_score                                      *)
(*   - the MobileNetV2 constructor's expansion of its stage table          *)
(*                                                                         *)
(* Floating point is modelled in fixed point.  A probability is an integer *)
(* number of 1/Denominator units, a mean is in the same unit, and a        *)
(* standard deviation is in units of 1/Precision (square root rounded      *)
(* down).  width_mult is a number of quarters.                             *)
(***************************************************************************)
EXTENDS Integers, Sequences, FiniteSets, TLC

VARIABLES
    fs,             \* file system: path -> Absent or the file's content
    hist,           \* per path, one record per download_file call on it
    engine,         \* the fields of the InferenceModel object
    ref,            \* TRUE when the caller holds a constructed InferenceModel
    result,         \* what the last call returned or raised
    arg,            \* the arguments of MobileNetV2(...)
    net,            \* the MobileNetV2 object built from arg
    score,          \* the distribution handed to the statistics
    stat            \* what get_mean_score / get_std_score returned for score

vars == <<fs, hist, engine, ref, result, arg, net, score, stat>>

(***************************************************************************)
(* Bounds                                                                  *)
(***************************************************************************)
MaxCalls == 2           \* download_file calls per path
Denominator == 2        \* a probability is k/Denominator
Precision == 100        \* a standard deviation is k/Precision
MaxWidthQuarters == 6   \* width_mult ranges over 1/4 .. MaxWidthQuarters/4
MaxSizeUnits == 14      \* input_size ranges over 16 * (2 .. MaxSizeUnits)

(***************************************************************************)
(* Files, chunks and serialized state dicts                                *)
(***************************************************************************)
Absent == <<-1>>

CachePath == "utils/nima/tmp/mobilenetv2.pth.tar"
ModelPath == "utils/nima/model/pretrain-model.pth"
Paths == {CachePath, ModelPath}

MOBILE_NET_V2_UTR == "https://s3-us-west-1.amazonaws.com/models-nima/mobilenetv2.pth.tar"
CombinedUrl == "https://example.org/pretrain-model.pth"
OtherUrl == "https://example.org/other.pth"
Urls == {MOBILE_NET_V2_UTR, CombinedUrl, OtherUrl}

\* A chunk is a number: 0 is an empty (keep-alive) chunk, and a non-empty chunk
\* carries one entry of a serialized state dict.
Entry(c) ==
    CASE c = 1 -> [key |-> "features",   shape |-> "ok",  ver |-> 1]
      [] c = 2 -> [key |-> "classifier", shape |-> "ok",  ver |-> 1]
      [] c = 3 -> [key |-> "base_model", shape |-> "ok",  ver |-> 1]
      [] c = 4 -> [key |-> "head",       shape |-> "ok",  ver |-> 1]
      [] c = 5 -> [key |-> "head",       shape |-> "bad", ver |-> 1]
      [] OTHER -> [key |-> "base_model", shape |-> "ok",  ver |-> 2]

\* What the server streams for each url (r.iter_content).
Remote(url) ==
    CASE url = MOBILE_NET_V2_UTR -> <<1, 0, 2>>
      [] url = CombinedUrl      -> <<3, 0, 4>>
      [] OTHER                  -> <<6, 5>>

Exists(f, p) == f[p] # Absent

NonEmpty(c) == c # 0

IsPrefix(s, t) == Len(s) <= Len(t) /\ SubSeq(t, 1, Len(s)) = s

(***************************************************************************)
(* download_file                                                           *)
(***************************************************************************)
FailPoints == {"none", "get", "open", "stream"}

NoErr == "none"

\* Lines 64-70 of download_file(url, local_filename) on file system f: the
\* request, the open and the chunk loop.  fail names the step that raises
\* ("none": no step does) and j the number of chunks received before a failing
\* stream breaks.  Returns the new file system, the number of requests.get
\* calls made, and the call's outcome.
fetch(f, url, p, fail, j) ==
    LET stream == Remote(url)
        got == IF fail = "stream" THEN SubSeq(stream, 1, j) ELSE stream
        written == SelectSeq(got, NonEmpty)
    IN  CASE fail = "get" ->
               [fs |-> f, gets |-> 1, status |-> "raise", err |-> "get", value |-> ""]
          [] fail = "open" ->
               [fs |-> f, gets |-> 1, status |-> "raise", err |-> "open", value |-> ""]
          [] fail = "stream" ->
               [fs |-> [f EXCEPT ![p] = written], gets |-> 1,
                status |-> "raise", err |-> "stream", value |-> ""]
          [] OTHER ->
               [fs |-> [f EXCEPT ![p] = written], gets |-> 1,
                status |-> "return", err |-> NoErr, value |-> p]

\* download_file without the os.path.exists test of line 62.
download_file_refetch(f, url, p, fail, j) == fetch(f, url, p, fail, j)

\* download_file removing the file it opened when the transfer breaks.
download_file_cleanup(f, url, p, fail, j) ==
    IF Exists(f, p)
    THEN [fs |-> f, gets |-> 0, status |-> "return", err |-> NoErr, value |-> p]
    ELSE IF fail = "stream"
         THEN [fs |-> f, gets |-> 1, status |-> "raise", err |-> "stream", value |-> ""]
         ELSE fetch(f, url, p, fail, j)

download_file(f, url, p, fail, j) ==
    IF Exists(f, p)
    THEN [fs |-> f, gets |-> 0, status |-> "return", err |-> NoErr, value |-> p]
    ELSE fetch(f, url, p, fail, j)

(***************************************************************************)
(* get_mean_score / get_std_score                                          *)
(***************************************************************************)
NumBuckets == 10

\* the sum of a vector of NumBuckets numbers (ndarray.sum, np.sum)
Sum(f) == f[1] + f[2] + f[3] + f[4] + f[5] + f[6] + f[7] + f[8] + f[9] + f[10]

\* floor of the square root
ISqrt(n) == CHOOSE r \in 0..(NumBuckets * Precision) : r * r <= n /\ n < (r + 1) * (r + 1)

\* np.arange(0, 10): the zero-based positions
arange_0_10 == [i \in 1..NumBuckets |-> i - 1]

\* np.arange(1, 11)
arange_1_11 == [i \in 1..NumBuckets |-> i]

\* score[i] is in units of 1/Denominator, and so is the result.
get_mean_score(s) ==
    LET buckets == arange_1_11
    IN  Sum([i \in 1..NumBuckets |-> buckets[i] * s[i]])

\* The variance sum is in units of 1/Denominator^3; the result is in units of
\* 1/Precision.
get_std_score(s) ==
    LET si == arange_1_11
        mean == get_mean_score(s)
        var == Sum([i \in 1..NumBuckets |->
                      (si[i] * Denominator - mean) * (si[i] * Denominator - mean) * s[i]])
    IN  ISqrt((var * Precision * Precision) \div (Denominator * Denominator * Denominator))

Delta(k) == [i \in 1..NumBuckets |-> IF i = k THEN Denominator ELSE 0]

Zero == [i \in 1..NumBuckets |-> 0]

RECURSIVE Mass(_)
\* the vectors of NumBuckets naturals that sum to n
Mass(n) ==
    IF n = 0 THEN {Zero}
    ELSE {[d EXCEPT ![a] = @ + 1] : d \in Mass(n - 1), a \in 1..NumBuckets}

\* every distribution whose probabilities are multiples of 1/Denominator
Distributions == Mass(Denominator)

(***************************************************************************)
(* torch.load / load_state_dict                                            *)
(***************************************************************************)
MobileNetV2Keys == {"features", "classifier"}
NIMAKeys == {"base_model", "head"}

\* the version of freshly initialized (random) parameters
Fresh == 0

\* the state dict serialized in content: the last entry of each key wins
StateDict(content) ==
    LET keys == {Entry(content[i]).key : i \in 1..Len(content)}
        last(k) == CHOOSE i \in 1..Len(content) :
                      /\ Entry(content[i]).key = k
                      /\ \A m \in (i + 1)..Len(content) : Entry(content[m]).key # k
    IN  [k \in keys |-> Entry(content[last(k)])]

\* torch.load(path, map_location=...)
torch_load(f, p) ==
    IF ~Exists(f, p) THEN [ok |-> FALSE, err |-> "FileNotFound", sd |-> StateDict(<<>>)]
    ELSE IF f[p] = <<>> THEN [ok |-> FALSE, err |-> "Unpickling", sd |-> StateDict(<<>>)]
    ELSE [ok |-> TRUE, err |-> NoErr, sd |-> StateDict(f[p])]

\* the parameters of w after copying in what sd holds for them
Copied(w, sd) ==
    [k \in DOMAIN w |->
        IF k \in DOMAIN sd /\ sd[k].shape = "ok" THEN sd[k].ver ELSE w[k]]

\* load_state_dict that skips what does not match (strict=False)
load_state_dict_lenient(w, sd) ==
    [ok |-> TRUE, err |-> NoErr, weights |-> Copied(w, sd)]

\* module.load_state_dict(state_dict): the matching parameters are copied,
\* then any missing key, unexpected key or shape mismatch raises.
load_state_dict(w, sd) ==
    LET exact == /\ DOMAIN sd = DOMAIN w
                 /\ \A k \in DOMAIN sd : sd[k].shape = "ok"
    IN  [ok |-> exact,
         err |-> IF exact THEN NoErr ELSE "IncompatibleWeights",
         weights |-> Copied(w, sd)]

(***************************************************************************)
(* mobile_net_v2 / NIMA                                                    *)
(***************************************************************************)
\* the outcome of a constructor step: the file system and the download made
\* so far (g), how the step ended, and the weights or object built
Step(g, status, err, built) ==
    [fs |-> g.fs, gets |-> g.gets, dl |-> g.dl, status |-> status, err |-> err,
     built |-> built]

NoDownload(f) == [fs |-> f, gets |-> 0, dl |-> 0]

\* line 192 of mobile_net_v2, given what torch.load returned
mobile_net_v2_load(g, model, t) ==
    IF ~t.ok THEN Step(g, "raise", t.err, model)
    ELSE IF ~load_state_dict(model, t.sd).ok
    THEN Step(g, "raise", "IncompatibleWeights", load_state_dict(model, t.sd).weights)
    ELSE Step(g, "return", NoErr, load_state_dict(model, t.sd).weights)

\* lines 191-193 of mobile_net_v2, given what download_file did (d)
mobile_net_v2_downloaded(d, dl, model) ==
    IF d.status = "raise"
    THEN Step([fs |-> d.fs, gets |-> d.gets, dl |-> dl], "raise", d.err, model)
    ELSE mobile_net_v2_load([fs |-> d.fs, gets |-> d.gets, dl |-> dl], model,
                            torch_load(d.fs, CachePath))

\* mobile_net_v2(pretrained) on file system f; fail and j are the outcome of
\* the download, should one be made.  dl is the number of download_file calls.
mobile_net_v2(f, pretrained, fail, j) ==
    IF ~pretrained
    THEN Step(NoDownload(f), "return", NoErr, [k \in MobileNetV2Keys |-> Fresh])
    ELSE IF ~Exists(f, CachePath)
    THEN mobile_net_v2_downloaded(download_file(f, MOBILE_NET_V2_UTR, CachePath, fail, j),
                                  1, [k \in MobileNetV2Keys |-> Fresh])
    ELSE mobile_net_v2_load(NoDownload(f), [k \in MobileNetV2Keys |-> Fresh],
                            torch_load(f, CachePath))

\* lines 198-207 of NIMA.__init__: the backbone without its classifier, and a
\* freshly initialized head
NIMA_head(base) ==
    Step(base, base.status, base.err,
         [k \in NIMAKeys |-> IF k = "base_model" THEN base.built["features"] ELSE Fresh])

\* NIMA(pretrained_base_model)
NIMA(f, pretrained_base_model, fail, j) ==
    NIMA_head(mobile_net_v2(f, pretrained_base_model, fail, j))

(***************************************************************************)
(* InferenceModel.__init__                                                 *)
(***************************************************************************)
DeviceTypes == {"cpu", "cuda"}
Devices == {"cpu", "cuda", "npu:x", ModelPath}

Unset == "unset"
NoWeights == [k \in NIMAKeys |-> -1]

\* the object before __init__ has assigned anything
NewObject ==
    [device |-> Unset, transform |-> Unset, weights |-> NoWeights,
     placed |-> Unset, training |-> TRUE]

\* NIMA() with its default argument
default_pretrained_base_model == TRUE

\* the argument of line 224
pretrained_base_model_arg == FALSE

\* lines 227-228, given the object o after load_state_dict
InferenceModel_init_place(n, o, device, cuda) ==
    IF device = "cuda" /\ ~cuda THEN Step(n, "raise", "DeviceUnavailable", o)
    ELSE Step(n, "return", NoErr, [o EXCEPT !.placed = device, !.training = FALSE])

\* line 226 accepting a state dict that does not match
InferenceModel_init_load_lenient(n, o, t, device, cuda) ==
    IF ~t.ok THEN Step(n, "raise", t.err, o)
    ELSE InferenceModel_init_place(
             n, [o EXCEPT !.weights = load_state_dict_lenient(o.weights, t.sd).weights],
             device, cuda)

\* lines 226-228, given what torch.load returned (t)
InferenceModel_init_load(n, o, t, device, cuda) ==
    IF ~t.ok THEN Step(n, "raise", t.err, o)
    ELSE IF ~load_state_dict(o.weights, t.sd).ok
    THEN Step(n, "raise", "IncompatibleWeights",
              [o EXCEPT !.weights = load_state_dict(o.weights, t.sd).weights])
    ELSE InferenceModel_init_place(
             n, [o EXCEPT !.weights = load_state_dict(o.weights, t.sd).weights],
             device, cuda)

\* lines 225-228, given the network NIMA(...) built (n)
InferenceModel_init_model(n, o, path_to_model, device, cuda) ==
    IF n.status = "raise" THEN Step(n, "raise", n.err, o)
    ELSE InferenceModel_init_load(n, [o EXCEPT !.weights = n.built, !.placed = "cpu"],
                                  torch_load(n.fs, path_to_model), device, cuda)

\* InferenceModel.__init__(device, path_to_model).  cuda is whether an
\* accelerator is available; fail and j are the outcome of a download, should
\* one be made.  built holds the fields assigned before the call ended.
InferenceModel_init(f, device, path_to_model, cuda, fail, j) ==
    IF device \notin DeviceTypes
    THEN Step(NoDownload(f), "raise", "InvalidDevice", NewObject)
    ELSE InferenceModel_init_model(
             NIMA(f, pretrained_base_model_arg, fail, j),
             [NewObject EXCEPT !.device = device, !.transform = "val_transform"],
             path_to_model, device, cuda)

\* InferenceModel.create_model(): cls(path_to_model) binds the path to the
\* first parameter, device, and leaves path_to_model at its default.
create_model(f, cuda, fail, j) ==
    LET path_to_model == ModelPath
    IN  InferenceModel_init(f, path_to_model, ModelPath, cuda, fail, j)

(***************************************************************************)
(* Images and prediction                                                   *)
(***************************************************************************)
InputSize == 224

Modes == {"L", "RGB", "RGBA"}
Images == [mode : Modes, pix : 0..1]

\* what a path given to predict_from_file holds
ImageFiles == {[kind |-> "missing", mode |-> "", pix |-> 0],
               [kind |-> "corrupt", mode |-> "", pix |-> 0]}
              \cup [kind : {"image"}, mode : Modes, pix : 0..1]

Channels(mode) == CASE mode = "L" -> 1 [] mode = "RGB" -> 3 [] OTHER -> 4

\* image.convert('RGB')
convert_RGB(image) == [mode |-> "RGB", pix |-> image.pix]

\* torchvision's default_loader: open the file and convert it to RGB
default_loader(file) ==
    IF file.kind # "image"
    THEN [ok |-> FALSE, err |-> "ImageDecode", image |-> [mode |-> "", pix |-> 0]]
    ELSE [ok |-> TRUE, err |-> NoErr,
          image |-> convert_RGB([mode |-> file.mode, pix |-> file.pix])]

\* Transform().val_transform: Resize((224, 224)), ToTensor(), Normalize with
\* the three ImageNet means: any other channel count raises.
val_transform(image) ==
    IF Channels(image.mode) # Len(<<485, 456, 406>>)
    THEN [ok |-> FALSE, err |-> "ChannelMismatch",
          tensor |-> [channels |-> 0, height |-> 0, width |-> 0, pix |-> 0]]
    ELSE [ok |-> TRUE, err |-> NoErr,
          tensor |-> [channels |-> Channels(image.mode), height |-> InputSize,
                      width |-> InputSize, pix |-> image.pix]]

\* NIMA.forward in evaluation mode: a function of the weights and the tensor
\* whose value is a distribution (the softmax output).
model_forward(weights, tensor) ==
    LET h == weights["base_model"] + 2 * weights["head"] + 3 * tensor.pix
        a == 1 + (h % NumBuckets)
        b == 1 + ((2 * h + 1) % NumBuckets)
    IN  [i \in 1..NumBuckets |->
            (IF i = a THEN Denominator - 1 ELSE 0) + (IF i = b THEN 1 ELSE 0)]

NoValue == 0 - 1

\* predict swallowing a failed forward pass and returning what it has
predict_partial(e, image, runtime_ok) ==
    LET t == val_transform(image)
        prob == model_forward(e.weights, t.tensor)
    IN  IF ~t.ok
        THEN [status |-> "raise", err |-> t.err, mean |-> NoValue, std |-> NoValue,
              prob |-> <<>>, handed |-> image.mode]
        ELSE IF ~runtime_ok
        THEN [status |-> "return", err |-> NoErr, mean |-> NoValue, std |-> NoValue,
              prob |-> <<>>, handed |-> image.mode]
        ELSE [status |-> "return", err |-> NoErr, mean |-> get_mean_score(prob),
              std |-> get_std_score(prob), prob |-> prob, handed |-> image.mode]

\* InferenceModel.predict(image) on the object with fields e; runtime_ok is
\* whether the transfer to the device and the forward pass go through.
predict(e, image, runtime_ok) ==
    LET t == val_transform(image)
        prob == model_forward(e.weights, t.tensor)
    IN  IF ~t.ok
        THEN [status |-> "raise", err |-> t.err, mean |-> NoValue, std |-> NoValue,
              prob |-> <<>>, handed |-> image.mode]
        ELSE IF ~runtime_ok
        THEN [status |-> "raise", err |-> "Runtime", mean |-> NoValue, std |-> NoValue,
              prob |-> <<>>, handed |-> image.mode]
        ELSE [status |-> "return", err |-> NoErr, mean |-> get_mean_score(prob),
              std |-> get_std_score(prob), prob |-> prob, handed |-> image.mode]

\* predict_from_pil_image without line 235
predict_from_pil_image_unconverted(e, image, runtime_ok) ==
    predict(e, image, runtime_ok)

\* InferenceModel.predict_from_pil_image(image)
predict_from_pil_image(e, image, runtime_ok) ==
    predict(e, convert_RGB(image), runtime_ok)

\* InferenceModel.predict_from_file(image_path)
predict_from_file(e, file, runtime_ok) ==
    LET d == default_loader(file)
    IN  IF ~d.ok
        THEN [status |-> "raise", err |-> d.err, mean |-> NoValue, std |-> NoValue,
              prob |-> <<>>, handed |-> ""]
        ELSE predict(e, d.image, runtime_ok)

(***************************************************************************)
(* MobileNetV2.__init__                                                    *)
(***************************************************************************)
\* t, c, n, s
interverted_residual_setting ==
    << <<1, 16, 1, 1>>,
       <<6, 24, 2, 2>>,
       <<6, 32, 3, 2>>,
       <<6, 64, 4, 2>>,
       <<6, 96, 3, 1>>,
       <<6, 160, 3, 2>>,
       <<6, 320, 1, 1>> >>

\* int(x * width_mult), width_mult being wq quarters
Scaled(x, wq) == (x * wq) \div 4

Layer(kind, inp, oup, stride, expand_ratio, use_res_connect) ==
    [kind |-> kind, inp |-> inp, oup |-> oup, stride |-> stride,
     expand_ratio |-> expand_ratio, use_res_connect |-> use_res_connect]

conv_bn(inp, oup, stride) == Layer("conv_bn", inp, oup, stride, 0, FALSE)

conv_1x1_bn(inp, oup) == Layer("conv_1x1_bn", inp, oup, 1, 0, FALSE)

AvgPool2d(kernel) == Layer("AvgPool2d", 0, 0, kernel, 0, FALSE)

InvertedResidual(inp, oup, stride, expand_ratio) ==
    Layer("InvertedResidual", inp, oup, stride, expand_ratio, stride = 1 /\ inp = oup)

\* every repeat of a stage built with the stage's stride
block_stride_every(i, s) == s

\* lines 144-147: the stride of repeat i (from 0) of a stage of stride s
block_stride(i, s) == IF i = 0 THEN s ELSE 1

\* line 148
next_input_channel(input_channel, output_channel) == output_channel

RECURSIVE repeats(_, _, _, _, _, _)
\* lines 143-148: repeats i .. n-1 of one stage, on st = the features built so
\* far and input_channel
repeats(st, output_channel, i, n, s, t) ==
    IF i >= n THEN st
    ELSE repeats(
        [features |-> Append(st.features,
                             InvertedResidual(st.input_channel, output_channel,
                                              block_stride(i, s), t)),
         input_channel |-> next_input_channel(st.input_channel, output_channel)],
        output_channel, i + 1, n, s, t)

RECURSIVE stages(_, _, _)
\* lines 141-148: the stages from the k-th on
stages(st, k, wq) ==
    IF k > Len(interverted_residual_setting) THEN st
    ELSE LET row == interverted_residual_setting[k]
         IN  stages(repeats(st, Scaled(row[2], wq), 0, row[3], row[4], row[1]),
                    k + 1, wq)

StemChannels == 32
LastChannels == 1280

NoNet ==
    [status |-> "none", features |-> <<>>, last_channel |-> 0, n_class |-> 0]

\* lines 150-159, given the blocks built (st)
MobileNetV2_tail(st, n_class, input_size, last_channel) ==
    [status |-> "built",
     features |-> st.features \o <<conv_1x1_bn(st.input_channel, last_channel),
                                   AvgPool2d(input_size \div 32)>>,
     last_channel |-> last_channel,
     n_class |-> n_class]

\* MobileNetV2(n_class, input_size, width_mult), width_mult being wq quarters
MobileNetV2(n_class, input_size, wq) ==
    IF input_size % 32 # 0 THEN [NoNet EXCEPT !.status = "AssertionError"]
    ELSE MobileNetV2_tail(
             stages([features |-> <<conv_bn(3, Scaled(StemChannels, wq), 2)>>,
                     input_channel |-> Scaled(StemChannels, wq)], 1, wq),
             n_class, input_size,
             IF wq > 4 THEN Scaled(LastChannels, wq) ELSE LastChannels)

(***************************************************************************)
(* Calls                                                                   *)
(***************************************************************************)
NoResult ==
    [op |-> "none", status |-> "none", err |-> NoErr, path |-> "", device |-> "",
     value |-> "", input |-> "", handed |-> "", mean |-> NoValue, std |-> NoValue,
     prob |-> <<>>]

ModelFiles == {Absent, <<>>, <<3, 4>>, <<6, 4>>, <<3>>, <<3, 5>>, <<3, 4, 1>>}
CacheFiles == {Absent, <<1, 2>>, <<1>>}

BuildIdle == arg = [n_class |-> 0, input_size |-> 0, width_quarters |-> 0] /\ net = NoNet
StatsIdle == score = Zero /\ stat = [mean |-> NoValue, std |-> NoValue]

InitCore ==
    /\ fs \in [Paths -> ModelFiles \cup CacheFiles]
    /\ fs[ModelPath] \in ModelFiles
    /\ fs[CachePath] \in CacheFiles
    /\ hist = [p \in Paths |-> <<>>]
    /\ engine = NewObject
    /\ ref = FALSE
    /\ result = NoResult

Init == InitCore /\ BuildIdle /\ StatsIdle

\* the record of one download_file call on p, made when the file system was f
Logged(h, f, p, r) ==
    [h EXCEPT ![p] = Append(@, [existed |-> Exists(f, p), gets |-> r.gets,
                                 err |-> r.err])]

\* a call of download_file(url, p)
DownloadCall(url, p, fail, j) ==
    /\ Len(hist[p]) < MaxCalls
    /\ LET r == download_file(fs, url, p, fail, j)
       IN  /\ fs' = r.fs
           /\ hist' = Logged(hist, fs, p, r)
           /\ result' = [NoResult EXCEPT !.op = "download_file", !.status = r.status,
                                         !.err = r.err, !.path = p, !.value = r.value]
    /\ UNCHANGED <<engine, ref, arg, net, score, stat>>

\* a call of NIMA(pretrained_base_model)
NIMACall(pretrained, fail, j) ==
    LET r == NIMA(fs, pretrained, fail, j)
    IN  /\ r.dl = 0 \/ Len(hist[CachePath]) < MaxCalls
        /\ fs' = r.fs
        /\ hist' = IF r.dl = 0 THEN hist ELSE Logged(hist, fs, CachePath, r)
        /\ result' = [NoResult EXCEPT !.op = "NIMA", !.status = r.status, !.err = r.err]
        /\ UNCHANGED <<engine, ref, arg, net, score, stat>>

\* the effect of a constructor call whose outcome is r
Constructed(op, device, path, r) ==
    /\ r.dl = 0 \/ Len(hist[CachePath]) < MaxCalls
    /\ fs' = r.fs
    /\ hist' = IF r.dl = 0 THEN hist ELSE Logged(hist, fs, CachePath, r)
    /\ engine' = r.built
    /\ ref' = (r.status = "return")
    /\ result' = [NoResult EXCEPT !.op = op, !.status = r.status, !.err = r.err,
                                  !.device = device, !.path = path]
    /\ UNCHANGED <<arg, net, score, stat>>

\* a call of InferenceModel(device, path_to_model)
Construct(device, path, cuda, fail, j) ==
    /\ ~ref
    /\ Constructed("InferenceModel", device, path,
                   InferenceModel_init(fs, device, path, cuda, fail, j))

\* a call of InferenceModel.create_model()
CreateModel(cuda, fail, j) ==
    /\ ~ref
    /\ Constructed("create_model", "", "", create_model(fs, cuda, fail, j))

\* the effect of a predict* call whose outcome is r
Predicted(op, input, r) ==
    /\ result' = [NoResult EXCEPT !.op = op, !.status = r.status, !.err = r.err,
                                  !.input = input, !.handed = r.handed,
                                  !.mean = r.mean, !.std = r.std, !.prob = r.prob]
    /\ UNCHANGED <<fs, hist, engine, ref, arg, net, score, stat>>

\* a predict call that re-initializes the network in training mode
PredictCall_retrain(image, runtime_ok) ==
    /\ ref
    /\ LET r == predict(engine, image, runtime_ok)
       IN  /\ result' = [NoResult EXCEPT !.op = "predict", !.status = r.status,
                                         !.err = r.err, !.input = image.mode,
                                         !.handed = r.handed, !.mean = r.mean,
                                         !.std = r.std, !.prob = r.prob]
           /\ engine' = [engine EXCEPT !.weights = [k \in NIMAKeys |-> Fresh],
                                       !.training = TRUE]
           /\ UNCHANGED <<fs, hist, ref, arg, net, score, stat>>

PredictCall(image, runtime_ok) ==
    /\ ref
    /\ Predicted("predict", image.mode, predict(engine, image, runtime_ok))

PredictFromPilCall(image, runtime_ok) ==
    /\ ref
    /\ Predicted("predict_from_pil_image", image.mode,
                 predict_from_pil_image(engine, image, runtime_ok))

PredictFromFileCall(file, runtime_ok) ==
    /\ ref
    /\ Predicted("predict_from_file", file.mode,
                 predict_from_file(engine, file, runtime_ok))

\* How a download from url may go: which step raises, and after how many
\* chunks when it is the stream that breaks.  No choice is made for a call
\* that makes no download.
Outcomes(url, downloads) ==
    IF ~downloads THEN {[fail |-> "none", j |-> 0]}
    ELSE {[fail |-> x, j |-> 0] : x \in FailPoints \ {"stream"}}
         \cup {[fail |-> "stream", j |-> k] : k \in 0..Len(Remote(url))}

NextDownload ==
    \E url \in Urls, p \in Paths :
        \E out \in Outcomes(url, ~Exists(fs, p)) : DownloadCall(url, p, out.fail, out.j)

SpecDownload == Init /\ [][NextDownload]_vars

\* whether a constructor call with this flag downloads the backbone's weights
Downloads(pretrained) == pretrained /\ ~Exists(fs, CachePath)

Next ==
    \/ \E pretrained \in BOOLEAN :
          \E out \in Outcomes(MOBILE_NET_V2_UTR, Downloads(pretrained)) :
              NIMACall(pretrained, out.fail, out.j)
    \/ \E device \in Devices, path \in Paths, cuda \in BOOLEAN :
          \E out \in Outcomes(MOBILE_NET_V2_UTR, Downloads(pretrained_base_model_arg)) :
              Construct(device, path, cuda, out.fail, out.j)
    \/ \E cuda \in BOOLEAN :
          \E out \in Outcomes(MOBILE_NET_V2_UTR, Downloads(pretrained_base_model_arg)) :
              CreateModel(cuda, out.fail, out.j)
    \/ \E image \in Images, runtime_ok \in BOOLEAN : PredictCall(image, runtime_ok)
    \/ \E image \in Images, runtime_ok \in BOOLEAN : PredictFromPilCall(image, runtime_ok)
    \/ \E file \in ImageFiles, runtime_ok \in BOOLEAN : PredictFromFileCall(file, runtime_ok)

Spec == Init /\ [][Next]_vars

(***************************************************************************)
(* The MobileNetV2 constructor on its own                                  *)
(***************************************************************************)
CoreIdle ==
    /\ fs = [p \in Paths |-> Absent]
    /\ hist = [p \in Paths |-> <<>>]
    /\ engine = NewObject
    /\ ref = FALSE
    /\ result = NoResult

InitBuild ==
    /\ CoreIdle
    /\ StatsIdle
    /\ arg \in [n_class : {10, 1000},
                input_size : {16 * u : u \in 2..MaxSizeUnits},
                width_quarters : 1..MaxWidthQuarters]
    /\ net = NoNet

\* a call of MobileNetV2(n_class, input_size, width_mult)
MobileNetV2Call ==
    /\ net.status = "none"
    /\ net' = MobileNetV2(arg.n_class, arg.input_size, arg.width_quarters)
    /\ UNCHANGED <<fs, hist, engine, ref, result, arg, score, stat>>

SpecBuild == InitBuild /\ [][MobileNetV2Call]_vars

(***************************************************************************)
(* The statistics on their own                                             *)
(***************************************************************************)
InitStats ==
    /\ CoreIdle
    /\ BuildIdle
    /\ score \in Distributions
    /\ stat = [mean |-> NoValue, std |-> NoValue]

\* a call of get_mean_score(score)
MeanCall ==
    /\ stat.mean = NoValue
    /\ stat' = [stat EXCEPT !.mean = get_mean_score(score)]
    /\ UNCHANGED <<fs, hist, engine, ref, result, arg, net, score>>

\* a call of get_std_score(score)
StdCall ==
    /\ stat.std = NoValue
    /\ stat' = [stat EXCEPT !.std = get_std_score(score)]
    /\ UNCHANGED <<fs, hist, engine, ref, result, arg, net, score>>

NextStats == MeanCall \/ StdCall

SpecStats == InitStats /\ [][NextStats]_vars

(***************************************************************************)
(* Properties                                                              *)
(***************************************************************************)
ConstructOps == {"InferenceModel", "create_model"}
PredictOps == {"predict", "predict_from_file", "predict_from_pil_image"}

\* what the server's stream for url leaves in a file once written in full
Served(url) == SelectSeq(Remote(url), NonEmpty)

\* a logged call that found the file, made no request and returned
Cached(c) == c.existed /\ c.gets = 0 /\ c.err = NoErr

\* Part of C1: a download_file call that finds local_path makes no request,
\* leaves the file as it is, and returns local_path.
C1_ExistingIsReturned ==
    /\ \A p \in Paths : \A i \in 1..Len(hist[p]) :
          hist[p][i].existed => Cached(hist[p][i])
    /\ (/\ result.op = "download_file"
        /\ hist[result.path][Len(hist[result.path])].existed)
       => result.status = "return" /\ result.value = result.path

\* C1 as stated: a call that finds local_path returns it with no request, and
\* starting from local_path absent the first two calls on it make exactly one
\* request between them.
C1_Original ==
    /\ C1_ExistingIsReturned
    /\ \A p \in Paths :
          (Len(hist[p]) >= 2 /\ ~hist[p][1].existed)
          => hist[p][1].gets + hist[p][2].gets = 1

\* C1 as amended: a call that finds local_path returns it with no request;
\* starting from local_path absent the first call makes one request, and the
\* second call makes none if the first one got as far as creating the file
\* (the request and the open went through), and one more if it did not.
C1_Amended ==
    /\ C1_ExistingIsReturned
    /\ \A p \in Paths :
          (Len(hist[p]) >= 2 /\ ~hist[p][1].existed)
          => /\ hist[p][1].gets = 1
             /\ hist[p][2].gets =
                   (IF hist[p][1].err \in {"get", "open"} THEN 1 ELSE 0)

C1_Witness ==
    \E p \in Paths :
        /\ Len(hist[p]) >= 2
        /\ ~hist[p][1].existed /\ hist[p][1].err = NoErr /\ hist[p][1].gets = 1
        /\ Cached(hist[p][2])
        /\ result.op = "download_file" /\ result.path = p

\* C9: when the transfer breaks after the file was opened, the call raises,
\* the file stays with the part received (a prefix of what the server
\* streams, possibly empty), and every later download_file call on that path
\* returns it with no request.
C9_PartialFileKept ==
    /\ (result.op = "download_file" /\ result.err = "stream")
       => /\ result.status = "raise"
          /\ Exists(fs, result.path)
          /\ \E url \in Urls : IsPrefix(fs[result.path], Served(url))
    /\ \A p \in Paths : \A i \in 1..Len(hist[p]) :
          hist[p][i].err = "stream"
          => /\ Exists(fs, p)
             /\ \A m \in (i + 1)..Len(hist[p]) : Cached(hist[p][m])

C9_Witness ==
    \E p \in Paths :
        /\ Len(hist[p]) >= 2
        /\ hist[p][1].err = "stream"
        /\ Cached(hist[p][2])
        /\ fs[p] = <<>>
        /\ result.op = "download_file" /\ result.status = "return" /\ result.value = p

\* the weights a state dict read from content gives the network
WeightsOf(content) == [k \in NIMAKeys |-> StateDict(content)[k].ver]

\* content is a state dict with exactly the network's keys and shapes
Compatible(content) ==
    /\ content # Absent
    /\ content # <<>>
    /\ DOMAIN StateDict(content) = NIMAKeys
    /\ \A k \in NIMAKeys : StateDict(content)[k].shape = "ok"

\* every field of the object is what a completed __init__ leaves
Initialized(e) ==
    /\ e.device \in DeviceTypes
    /\ e.transform = "val_transform"
    /\ e.placed = e.device
    /\ ~e.training
    /\ \A k \in NIMAKeys : e.weights[k] > Fresh

\* C2: once construction has succeeded, no step changes the weights, the
\* device or the evaluation mode, or takes the engine away.
C2_ReadyIsTerminal == [][ref => (ref' /\ engine' = engine)]_vars

C2_Witness ==
    /\ ref
    /\ Initialized(engine)
    /\ result.op \in PredictOps
    /\ result.status = "raise"

\* C3: a construction with an invalid device, a missing or unreadable weight
\* file or a state dict that does not match raises and hands no engine to the
\* caller; the caller holds an engine only if every field is initialized, and
\* predict* runs only on such an engine.
C3_NoPartialEngine ==
    /\ (result.op \in ConstructOps /\ result.status = "raise") => ~ref
    /\ (/\ result.op = "InferenceModel"
        /\ \/ result.device \notin DeviceTypes
           \/ ~Compatible(fs[result.path]))
       => result.status = "raise" /\ ~ref
    /\ ref => Initialized(engine)
    /\ result.op \in PredictOps => ref

C3_Witness ==
    /\ result.op = "InferenceModel"
    /\ result.status = "raise"
    /\ result.err = "IncompatibleWeights"
    /\ fs[result.path] = <<3>>
    /\ engine.weights["base_model"] > Fresh
    /\ ~ref

\* C4: a predict* call either returns the whole triple (a distribution of ten
\* values with its mean and standard deviation) or raises and returns
\* nothing; in both cases the engine is still there and initialized.
C4_AllOrNothing ==
    result.op \in PredictOps
    => /\ \/ /\ result.status = "return"
             /\ result.err = NoErr
             /\ Len(result.prob) = NumBuckets
             /\ Sum(result.prob) = Denominator
             /\ result.mean = get_mean_score(result.prob)
             /\ result.std = get_std_score(result.prob)
          \/ /\ result.status = "raise"
             /\ result.err # NoErr
             /\ result.prob = <<>>
             /\ result.mean = NoValue
             /\ result.std = NoValue
       /\ ref
       /\ Initialized(engine)

C4_Witness ==
    /\ result.op = "predict_from_file"
    /\ result.status = "raise"
    /\ result.err = "Runtime"
    /\ ref

\* C6: the image predict_from_pil_image and predict_from_file hand to predict
\* has three channels, whatever the mode of the input, so neither fails on
\* the channel count and a grayscale image is scored.
C6_ThreeChannels ==
    result.op \in {"predict_from_file", "predict_from_pil_image"}
    => /\ result.handed # "" => Channels(result.handed) = 3
       /\ result.op = "predict_from_pil_image" => result.handed # ""
       /\ result.err # "ChannelMismatch"
       /\ (result.input = "L" /\ result.err # "Runtime") => result.status = "return"

C6_Witness ==
    /\ result.op = "predict_from_pil_image"
    /\ result.input = "L"
    /\ result.handed = "RGB"
    /\ result.status = "return"

\* C8: a construction of the engine calls download_file on no path and
\* writes no file, whether or not the backbone's cache file exists, and the
\* weights of the engine it returns are those of the file at path_to_model.
C8_NoBackboneLoad ==
    [][result'.op \in ConstructOps
       => /\ fs' = fs
          /\ hist' = hist
          /\ ref' => engine'.weights = WeightsOf(fs[result'.path])]_vars

C8_Witness ==
    /\ result.op = "InferenceModel"
    /\ ref
    /\ ~Exists(fs, CachePath)
    /\ hist[CachePath] = <<>>

\* C10: create_model() returns an engine on a device, loaded from the default
\* weight path, whenever the file at that path matches the network.
C10_Claim ==
    (result.op = "create_model" /\ Compatible(fs[ModelPath]))
    => /\ result.status = "return"
       /\ ref
       /\ engine.device \in DeviceTypes
       /\ engine.weights = WeightsOf(fs[ModelPath])

\* C5: on the distribution with all its mass on bucket k, get_mean_score
\* returns k and get_std_score returns 0, for every k in 1..10.
C5_DeltaStatistics ==
    \A k \in 1..NumBuckets :
        score = Delta(k)
        => /\ stat.mean # NoValue => stat.mean = k * Denominator
           /\ stat.std # NoValue => stat.std = 0

C5_Witness ==
    /\ score = Delta(NumBuckets)
    /\ stat.mean = NumBuckets * Denominator
    /\ stat.std = 0

\* the number of blocks of the stages before the k-th
Offset(k) ==
    LET n(m) == interverted_residual_setting[m][3]
    IN  CASE k = 1 -> 0
          [] k = 2 -> n(1)
          [] k = 3 -> n(1) + n(2)
          [] k = 4 -> n(1) + n(2) + n(3)
          [] k = 5 -> n(1) + n(2) + n(3) + n(4)
          [] k = 6 -> n(1) + n(2) + n(3) + n(4) + n(5)
          [] k = 7 -> n(1) + n(2) + n(3) + n(4) + n(5) + n(6)
          [] OTHER -> n(1) + n(2) + n(3) + n(4) + n(5) + n(6) + n(7)

\* C7: the features built are the stem, then for each stage (t, c, n, s) in
\* table order exactly n inverted-residual blocks of expansion ratio t and
\* int(c * width_mult) output channels (c at width_mult 1), the first of
\* stride s and the others of stride 1, each taking as input the output
\* channels of the layer before it (the stem's 32 at width_mult 1).
C7_StageExpansion ==
    net.status = "built"
    => /\ Len(net.features) = 1 + Offset(8) + 2
       /\ net.features[1].kind = "conv_bn"
       /\ net.features[1].oup = Scaled(32, arg.width_quarters)
       /\ arg.width_quarters = 4 => net.features[1].oup = 32
       /\ \A k \in 1..7 :
            LET row == interverted_residual_setting[k]
            IN  \A r \in 1..row[3] :
                  LET b == net.features[1 + Offset(k) + r]
                  IN  /\ b.kind = "InvertedResidual"
                      /\ b.expand_ratio = row[1]
                      /\ b.oup = Scaled(row[2], arg.width_quarters)
                      /\ arg.width_quarters = 4 => b.oup = row[2]
                      /\ b.stride = (IF r = 1 THEN row[4] ELSE 1)
                      /\ b.inp = net.features[Offset(k) + r].oup

C7_Witness ==
    /\ net.status = "built"
    /\ arg.width_quarters = 4
    /\ arg.input_size = 224
    /\ Len(net.features) = 20
    /\ net.features[4].stride = 1
    /\ net.features[4].inp = 24
    /\ net.features[4].use_res_connect

====
